---- MODULE Spec2Model ----
(***************************************************************************)
(* A model of the Secret Santa application src/app.py:                     *)
(*   - initialize_assignments: the rejection-sampling matcher,             *)
(*   - get_or_create_assignments: read-if-exists-else-create persistence,  *)
(*   - initialize_all_families: reconciliation of the configured families  *)
(*     against the persisted assignment tables,                            *)
(*   - the script run that calls them for every request.                   *)
(*                                                                         *)
(* Strings that the code takes apart (table names, family ids) are         *)
(* sequences of tokens; every other string is a TLA+ string.  A Python     *)
(* dict is the sequence of its items in insertion order, its keys unique.  *)
(***************************************************************************)
EXTENDS Integers, Sequences, FiniteSets, TLC

VARIABLES
    m_pc,            \* matcher harness: "off", "ready" before the call, "done" after it
    m_participants,  \* matcher harness: the participants argument
    m_exclusions,    \* matcher harness: the exclusions argument
    m_outcome,       \* matcher harness: what initialize_assignments did
    m_receivers,     \* matcher loop: the local receivers
    m_valid,         \* matcher loop: the local valid
    m_attempts,      \* matcher loop: the local attempts
    m_error,         \* matcher loop: the number of attempts the ValueError names
    a_pc,            \* authenticate harness: "off", "ready" before the call, "done" after it
    a_username,      \* authenticate harness: the username argument
    a_password,      \* authenticate harness: the password argument
    a_family,        \* authenticate harness: the family argument
    a_other,         \* authenticate harness: another family of the configuration
    a_result,        \* authenticate harness: what authenticate returned
    config,          \* the configuration file: the list of families
    changes,         \* how often the configuration file was edited
    db,              \* the TinyDB file: table name -> rows, in insertion order
    pc,              \* per script run: "idle", "loop", "insert", "request"
    cfg,             \* per script run: the configuration it loaded
    idx,             \* per script run: position of initialize_all_families' loop
    call,            \* per script run: the get_or_create_assignments call in progress
    pending,         \* per script run: items of assignments not yet inserted
    outcomes,        \* history: per script run, how each call of the loop ended
    genlog,          \* history: every non-empty matcher result, in order
    removed,         \* history: (family id, generation) pairs a reconcile found
                     \*   stored for a family absent from its configuration
    ev,              \* history: what the last step did
    session,         \* per session: st.session_state
    assignments,     \* per script run: the assignments the page got
    shown,           \* history: per session, what its last script run showed
    login,           \* history: per session, the last authenticate call that
                     \*   returned a participant
    saves,           \* how often save_wish_list was called
    wev              \* history: the last save_wish_list call

m_vars == <<m_pc, m_participants, m_exclusions, m_outcome, m_receivers, m_valid,
            m_attempts, m_error>>

a_vars == <<a_pc, a_username, a_password, a_family, a_other, a_result>>

h_vars == <<m_vars, a_vars>>

u_vars == <<session, assignments, shown, login, saves, wev>>

s_vars == <<config, changes, db, pc, cfg, idx, call, pending, outcomes, genlog,
            removed, ev, u_vars>>

vars == <<h_vars, s_vars>>

(***************************************************************************)
(* Bounds of the model                                                     *)
(***************************************************************************)
MaxLen == 3      \* longest participant list handed to the matcher harness

MaxConfigChanges == 2   \* edits of the configuration file

MaxGen == 3      \* non-empty matcher results over a behaviour

NumProcs == 2    \* script runs (sessions) that may overlap

Usernames == {"A", "B", "C"}

Procs == 1..NumProcs

\* Python's None, where a string is expected, and where a family id is.
None == "None"

NoFamilyId == <<>>

(***************************************************************************)
(* Python helpers                                                          *)
(***************************************************************************)
Range(s) == {s[i] : i \in 1..Len(s)}

\* All sequences over S of length at most n.
SeqsUpTo(S, n) == UNION {[1..k -> S] : k \in 0..n}

\* dict(zip(keys, values)): items in the order the keys first occur, each key
\* holding the value of its last occurrence.
DictZip(keys, values) ==
    LET n == IF Len(keys) < Len(values) THEN Len(keys) ELSE Len(values)
        IsFirst(i) == \A j \in 1..(i - 1) : keys[j] # keys[i]
        first == SelectSeq([i \in 1..n |-> i], IsFirst)
        LastValue(k) ==
            values[CHOOSE i \in 1..n : keys[i] = k /\ \A j \in (i + 1)..n : keys[j] # k]
    IN  [x \in 1..Len(first) |->
            [giver |-> keys[first[x]], receiver |-> LastValue(keys[first[x]])]]

\* A dict as the set of its (key, value) pairs: two dicts are equal in
\* Python when these sets are equal.
Items(d) == {<<d[i].giver, d[i].receiver>> : i \in 1..Len(d)}

Keys(d) == {d[i].giver : i \in 1..Len(d)}

Values(d) == {d[i].receiver : i \in 1..Len(d)}

(***************************************************************************)
(* initialize_assignments                                                  *)
(***************************************************************************)
max_attempts == 1000

\* The orders random.shuffle can leave a list of length n in.
IndexPermutations(n) ==
    {p \in [1..n -> 1..n] : \A i, j \in 1..n : i # j => p[i] # p[j]}

Shuffles(receivers) ==
    {[i \in 1..Len(receivers) |-> receivers[p[i]]] : p \in IndexPermutations(Len(receivers))}

\* exclusions.get(giver, [])
ExclusionsGet(exclusions, giver) ==
    IF giver \in DOMAIN exclusions THEN exclusions[giver] ELSE {}

\* PairingValid as it would be with the self-assignment check left out.
PairingValid_NoSelfCheck(givers, receivers, exclusions) ==
    \A i \in 1..Len(givers) :
        receivers[i] \notin ExclusionsGet(exclusions, givers[i])

\* PairingValid as it would be with the exclusion check left out.
PairingValid_NoExclusions(givers, receivers, exclusions) ==
    \A i \in 1..Len(givers) : givers[i] # receivers[i]

\* The inner for loop: valid stays True iff no pair of zip(givers, receivers)
\* is a self-assignment or an excluded pair.
PairingValid(givers, receivers, exclusions) ==
    \A i \in 1..Len(givers) :
        /\ givers[i] # receivers[i]
        /\ receivers[i] \notin ExclusionsGet(exclusions, givers[i])

\* Every way the while loop can end.  The loop is entered with valid = False
\* and attempts = 0; each pass shuffles, validates and counts.  It is left at
\* pass k with a valid shuffle, which takes k - 1 invalid shuffles before it,
\* or after max_attempts passes that were all invalid, and then ValueError is
\* raised.  An outcome is the dict returned (or raised = TRUE) with the set of
\* values attempts can have at that exit.
initialize_assignments(participants, exclusions) ==
    LET givers == participants
        shuffles == Shuffles(participants)
        good == {r \in shuffles : PairingValid(givers, r, exclusions)}
        bad == shuffles \ good
        passes == IF bad = {} /\ max_attempts >= 1 THEN 1..1 ELSE 1..max_attempts
    IN  {[raised |-> FALSE, value |-> DictZip(givers, r), attempts |-> passes] :
            r \in {g \in good : passes # {}}}
        \cup
        (IF bad # {} \/ max_attempts = 0
         THEN {[raised |-> TRUE, value |-> <<>>, attempts |-> max_attempts..max_attempts]}
         ELSE {})

(***************************************************************************)
(* Configuration                                                           *)
(***************************************************************************)
\* Family ids, as token sequences: "g1", "g2" and "assignments_g1".
FamilyIdList == << <<"g1">>, <<"g2">>, <<"assignments_", "g1">> >>

\* The password the configuration gives username u.
PasswordOf(u) == "pw" \o u

Participant(u, x) == [username |-> u, password |-> PasswordOf(u), exclude |-> x]

\* The participant lists each family id can be configured with: of two, of
\* three with an exclusion, of none, and of two that cannot be matched.
RostersOf ==
    << { <<Participant("A", {}), Participant("B", {})>>,
         <<Participant("A", {"B"}), Participant("B", {}), Participant("C", {})>> },
       { <<>>,
         <<Participant("A", {"B"}), Participant("B", {})>> },
       { <<Participant("A", {}), Participant("B", {})>> } >>

\* config["families"]: any selection of the family ids, each with a roster.
Configs ==
    LET Present(f) == f.present
        Strip(s) == [i \in 1..Len(s) |-> [id |-> s[i].id, participants |-> s[i].participants]]
        Choices(i) == [roster : RostersOf[i], present : BOOLEAN]
    IN  {Strip(SelectSeq([i \in 1..Len(FamilyIdList) |->
                            [id |-> FamilyIdList[i], participants |-> c[i].roster,
                             present |-> c[i].present]], Present)) :
            c \in {f \in [1..Len(FamilyIdList) -> UNION {Choices(i) : i \in 1..Len(FamilyIdList)}] :
                      \A i \in 1..Len(FamilyIdList) : f[i] \in Choices(i)}}

\* {family["id"] for family in config.get("families", [])}
ConfigFamilyIds(families) == {families[i].id : i \in 1..Len(families)}

(***************************************************************************)
(* TinyDB                                                                  *)
(***************************************************************************)
\* TableName as it would be if the family id were left out of the name.
TableName_Shared(family_id) == <<"assignments_">>

\* f"assignments_{family_id}"
TableName(family_id) == <<"assignments_">> \o family_id

\* table.all(): the rows of the table, none when the file has no such table.
TableAll(d, name) == IF name \in DOMAIN d THEN d[name] ELSE <<>>

\* TableInsert as it would be if a row took the place of the rows before it.
TableInsert_Overwrite(d, name, row) ==
    [t \in DOMAIN d \cup {name} |-> IF t = name THEN <<row>> ELSE d[t]]

\* table.insert(row)
TableInsert(d, name, row) ==
    [t \in DOMAIN d \cup {name} |-> IF t = name THEN Append(TableAll(d, name), row) ELSE d[t]]

\* DropTables as it would be with db.drop_tables(), which empties the file.
DropTables_WholeFile(d, names) == IF names = {} THEN d ELSE <<>>

\* db.drop_table(name) for every name of names; dropping a table the file
\* does not hold changes nothing.
DropTables(d, names) == [t \in DOMAIN d \ names |-> d[t]]

\* t.startswith("assignments_")
StartsWithAssignments(t) == Len(t) >= 1 /\ t[1] = "assignments_"

\* t.replace("assignments_", ""): every occurrence goes, not only the prefix.
ReplaceAssignments(t) ==
    LET Other(tok) == tok # "assignments_"
    IN  SelectSeq(t, Other)

\* RowsToDict as it would be with the two fields taken for each other.
RowsToDict_Swapped(existing) ==
    DictZip([i \in 1..Len(existing) |-> existing[i].receiver],
            [i \in 1..Len(existing) |-> existing[i].giver])

\* {record["giver"]: record["receiver"] for record in existing}
RowsToDict(existing) ==
    DictZip([i \in 1..Len(existing) |-> existing[i].giver],
            [i \in 1..Len(existing) |-> existing[i].receiver])

(***************************************************************************)
(* get_or_create_assignments                                               *)
(***************************************************************************)
\* usernames = [p["username"] for p in family["participants"]]
UsernamesOf(participants) ==
    [i \in 1..Len(participants) |-> participants[i].username]

\* The exclusion map: a key for every participant whose exclude list is not
\* empty.
BuildExclusions(participants) ==
    LET withExclude == {i \in 1..Len(participants) : participants[i].exclude # {}}
    IN  [u \in {participants[i].username : i \in withExclude} |->
            participants[CHOOSE i \in withExclude :
                /\ participants[i].username = u
                /\ \A j \in withExclude : j > i => participants[j].username # u].exclude]

\* ExistingFound as it would be if stored rows only counted while their givers
\* are the family's current participants.
ExistingFound_IfCurrent(existing, family) ==
    /\ existing # <<>>
    /\ {existing[i].giver : i \in 1..Len(existing)} = Range(UsernamesOf(family.participants))

\* `if existing:`
ExistingFound(existing, family) == existing # <<>>

\* assignments = initialize_assignments(usernames, exclusions)
MatchResults(participants) ==
    initialize_assignments(UsernamesOf(participants), BuildExclusions(participants))

\* LoopAfterException as it would be if the exception left the loop.
LoopAfterException_Break(i, n) == n + 1

\* The try/except around the call in initialize_all_families' loop: after an
\* exception in the call for families[i] of n, the loop goes on with the next.
LoopAfterException(i, n) == i + 1

\* No earlier call to compare with.
NoPrev == [has |-> FALSE, value |-> <<>>, created |-> FALSE]

NoCall == [id |-> <<>>, gen |-> 0, found |-> FALSE, prev |-> NoPrev]

\* The history of one step.  For the steps of a get_or_create_assignments
\* call: the family id, whether the table held rows when the call read it
\* (found), what the call returned (value), whether the call has changed the
\* database (dbChanged), and prev: the mapping returned by the call that
\* ended in the step right before this call began, when that call was for the
\* same family.  For a reconcile: whether the tables of all configured
\* families are as they were (kept).
NoEvent ==
    [type |-> "none", proc |-> 0, id |-> <<>>, found |-> FALSE, value |-> <<>>,
     prev |-> NoPrev, dbChanged |-> FALSE, kept |-> TRUE]

\* The script run is over: its locals are gone.
EndRun(p) ==
    /\ pc' = [pc EXCEPT ![p] = "idle"]
    /\ cfg' = [cfg EXCEPT ![p] = <<>>]
    /\ idx' = [idx EXCEPT ![p] = 1]
    /\ outcomes' = [outcomes EXCEPT ![p] = <<>>]

\* The call for `id` ended, with kind "read", "created" or "raised".  In the
\* loop of initialize_all_families the run goes on with the next family; in
\* the request part the page is rendered (or st.stop() ends the run).
Finish(p, id, kind, value, found, prev, changed) ==
    /\ ev' = [NoEvent EXCEPT !.type = IF kind = "raised" THEN "raise" ELSE "return",
                             !.proc = p, !.id = id, !.found = found, !.value = value,
                             !.prev = prev, !.dbChanged = changed]
    /\ call' = [call EXCEPT ![p] = NoCall]
    /\ pending' = [pending EXCEPT ![p] = <<>>]
    /\ IF idx[p] <= Len(cfg[p])
       THEN /\ pc' = [pc EXCEPT ![p] = "loop"]
            /\ idx' = [idx EXCEPT ![p] =
                          IF kind = "raised" THEN LoopAfterException(@, Len(cfg[p])) ELSE @ + 1]
            /\ outcomes' = [outcomes EXCEPT ![p] =
                               Append(@, [id |-> id, kind |-> kind, value |-> value])]
            /\ UNCHANGED cfg
       ELSE EndRun(p)

\* get_or_create_assignments(family) up to its first write: the read of the
\* table, then the return of what is stored, or the matcher run.
Goc(p, family) ==
    LET name == TableName(family.id)
        existing == TableAll(db, name)
        found == existing # <<>>
        prev == IF ev.type = "return" /\ ev.id = family.id
                THEN [has |-> TRUE, value |-> ev.value, created |-> ev.dbChanged]
                ELSE NoPrev
    IN  IF ExistingFound(existing, family)
        THEN /\ Finish(p, family.id, "read", RowsToDict(existing), found, prev, FALSE)
             /\ UNCHANGED <<db, genlog>>
        ELSE \E o \in MatchResults(family.participants) :
                IF o.raised
                THEN /\ Finish(p, family.id, "raised", <<>>, found, prev, FALSE)
                     /\ UNCHANGED <<db, genlog>>
                ELSE IF o.value = <<>>
                THEN /\ Finish(p, family.id, "created", <<>>, found, prev, FALSE)
                     /\ UNCHANGED <<db, genlog>>
                ELSE /\ Len(genlog) < MaxGen
                     /\ genlog' = Append(genlog, [id |-> family.id,
                                                  participants |-> family.participants,
                                                  value |-> o.value])
                     /\ call' = [call EXCEPT ![p] =
                                    [id |-> family.id, gen |-> Len(genlog) + 1,
                                     found |-> found, prev |-> prev]]
                     /\ pending' = [pending EXCEPT ![p] = o.value]
                     /\ pc' = [pc EXCEPT ![p] = "insert"]
                     /\ ev' = [NoEvent EXCEPT !.type = "begin", !.proc = p, !.id = family.id,
                                              !.found = found, !.prev = prev]
                     /\ UNCHANGED <<db, cfg, idx, outcomes>>

\* One pass of `for giver, receiver in assignments.items(): insert(...)`, and
\* after the last pass the return of assignments.
Insert(p) ==
    /\ pc[p] = "insert"
    /\ LET item == Head(pending[p])
           row == [giver |-> item.giver, receiver |-> item.receiver, gen |-> call[p].gen]
       IN  /\ db' = TableInsert(db, TableName(call[p].id), row)
           /\ IF Tail(pending[p]) = <<>>
              THEN Finish(p, call[p].id, "created", genlog[call[p].gen].value,
                          call[p].found, call[p].prev, TRUE)
              ELSE /\ pending' = [pending EXCEPT ![p] = Tail(@)]
                   /\ ev' = [NoEvent EXCEPT !.type = "insert", !.proc = p, !.id = call[p].id,
                                            !.found = call[p].found, !.prev = call[p].prev,
                                            !.dbChanged = TRUE]
                   /\ UNCHANGED <<pc, cfg, idx, call, outcomes>>
    /\ UNCHANGED <<config, changes, genlog, removed, u_vars, h_vars>>

(***************************************************************************)
(* get_wish_list and save_wish_list                                        *)
(***************************************************************************)
WishesTable == <<"wishes">>

\* wishes_table.get(User.username == username): the first record of the
\* username, if any.
WishesGet(d, username) ==
    LET docs == TableAll(d, WishesTable)
        hits == {i \in 1..Len(docs) : docs[i].username = username}
    IN  IF hits = {}
        THEN [found |-> FALSE, items |-> <<>>]
        ELSE [found |-> TRUE, items |-> docs[CHOOSE i \in hits : \A j \in hits : i <= j].items]

\* wishes_table.update({"items": items}, User.username == username): every
\* record of the username gets the items.
WishesUpdate(d, username, items) ==
    [t \in DOMAIN d |->
        IF t = WishesTable
        THEN [i \in 1..Len(d[t]) |->
                 IF d[t][i].username = username
                 THEN [username |-> username, items |-> items]
                 ELSE d[t][i]]
        ELSE d[t]]

\* get_wish_list as it would be if the last record of the username were read.
get_wish_list_Last(d, username) ==
    LET docs == TableAll(d, WishesTable)
        hits == {i \in 1..Len(docs) : docs[i].username = username}
    IN  IF hits = {} THEN <<>>
        ELSE docs[CHOOSE i \in hits : \A j \in hits : i >= j].items

\* return result["items"] if result else []
get_wish_list(d, username) ==
    IF WishesGet(d, username).found THEN WishesGet(d, username).items ELSE <<>>

\* save_wish_list as it would be without the test for a record.
save_wish_list_AlwaysInsert(d, username, items) ==
    TableInsert(d, WishesTable, [username |-> username, items |-> items])

\* save_wish_list as it would be if the new items were added to the stored ones.
save_wish_list_Extend(d, username, items) ==
    IF WishesGet(d, username).found
    THEN WishesUpdate(d, username, WishesGet(d, username).items \o items)
    ELSE TableInsert(d, WishesTable, [username |-> username, items |-> items])

\* The database file after save_wish_list(username, items).
save_wish_list(d, username, items) ==
    IF WishesGet(d, username).found
    THEN WishesUpdate(d, username, items)
    ELSE TableInsert(d, WishesTable, [username |-> username, items |-> items])

(***************************************************************************)
(* authenticate and the look-ups in the configuration                      *)
(***************************************************************************)
NoParticipant == [username |-> None, password |-> None, exclude |-> {}]

\* CredentialsMatch as it would be with the password left out.
CredentialsMatch_UsernameOnly(participant, username, password) ==
    participant.username = username

\* participant["username"] == username and participant["password"] == password
CredentialsMatch(participant, username, password) ==
    participant.username = username /\ participant.password = password

\* The first participant of the family that matches, or None (found = FALSE).
authenticate(username, password, family) ==
    LET ps == family.participants
        hits == {i \in 1..Len(ps) : CredentialsMatch(ps[i], username, password)}
    IN  IF hits = {}
        THEN [found |-> FALSE, participant |-> NoParticipant]
        ELSE [found |-> TRUE, participant |-> ps[CHOOSE i \in hits : \A j \in hits : i <= j]]

\* get_family_by_id: the first family with the id, or None (found = FALSE).
get_family_by_id(families, family_id) ==
    LET hits == {i \in 1..Len(families) : families[i].id = family_id}
    IN  IF hits = {}
        THEN [found |-> FALSE, family |-> [id |-> NoFamilyId, participants |-> <<>>]]
        ELSE [found |-> TRUE, family |-> families[CHOOSE i \in hits : \A j \in hits : i <= j]]

\* get_user_info: the first participant with the username, or None.
get_user_info(username, family) ==
    LET ps == family.participants
        hits == {i \in 1..Len(ps) : ps[i].username = username}
    IN  IF hits = {}
        THEN [found |-> FALSE, participant |-> NoParticipant]
        ELSE [found |-> TRUE, participant |-> ps[CHOOSE i \in hits : \A j \in hits : i <= j]]

\* assignments.get(username): the receiver, or None.
AssignmentsGet(d, username) ==
    IF \E i \in 1..Len(d) : d[i].giver = username
    THEN d[CHOOSE i \in 1..Len(d) : d[i].giver = username].receiver
    ELSE None

(***************************************************************************)
(* initialize_all_families and the script run                              *)
(***************************************************************************)
\* families_to_remove = db_family_ids - config_family_ids
FamiliesToRemove(d, families) ==
    LET assignment_tables == {t \in DOMAIN d : StartsWithAssignments(t)}
        db_family_ids == {ReplaceAssignments(t) : t \in assignment_tables}
    IN  db_family_ids \ ConfigFamilyIds(families)

\* The family a stored assignment table belongs to: the id its name was made
\* from.
OwnerOf(t) == Tail(t)

\* The generations that have rows in table t.
GensOf(d, t) == {TableAll(d, t)[i].gen : i \in 1..Len(TableAll(d, t))}

\* The start of a script run: the configuration is loaded, and the first half
\* of initialize_all_families drops the tables of the families to remove.
Reconcile(p) ==
    /\ pc[p] = "idle"
    /\ LET families == config
           newdb == DropTables(db, {TableName(f) : f \in FamiliesToRemove(db, families)})
           gone == {t \in DOMAIN db :
                       StartsWithAssignments(t) /\ OwnerOf(t) \notin ConfigFamilyIds(families)}
       IN  /\ db' = newdb
           /\ removed' = removed \cup UNION {{<<OwnerOf(t), g>> : g \in GensOf(db, t)} : t \in gone}
           /\ cfg' = [cfg EXCEPT ![p] = families]
           /\ ev' = [NoEvent EXCEPT
                        !.type = "reconcile", !.proc = p, !.dbChanged = (newdb # db),
                        !.kept = \A f \in ConfigFamilyIds(families) :
                                    TableAll(newdb, TableName(f)) = TableAll(db, TableName(f))]
    /\ pc' = [pc EXCEPT ![p] = "loop"]
    /\ idx' = [idx EXCEPT ![p] = 1]
    /\ outcomes' = [outcomes EXCEPT ![p] = <<>>]
    /\ UNCHANGED <<config, changes, call, pending, genlog, u_vars, h_vars>>

\* One pass of `for family in config.get("families", [])`.
LoopCall(p) ==
    /\ pc[p] = "loop"
    /\ idx[p] <= Len(cfg[p])
    /\ Goc(p, cfg[p][idx[p]])
    /\ UNCHANGED <<config, changes, removed, u_vars, h_vars>>

\* The loop is through: initialize_all_families returns.
LoopDone(p) ==
    /\ pc[p] = "loop"
    /\ idx[p] > Len(cfg[p])
    /\ pc' = [pc EXCEPT ![p] = "request"]
    /\ UNCHANGED <<config, changes, db, cfg, idx, call, pending, outcomes, genlog,
                   removed, ev, u_vars, h_vars>>

\* The session is logged in to one of the configured families: the page asks
\* for that family's assignments.
RequestCall(p) ==
    /\ pc[p] = "request"
    /\ \E i \in 1..Len(cfg[p]) : Goc(p, cfg[p][i])
    /\ UNCHANGED <<config, changes, removed, u_vars, h_vars>>

\* The session is not logged in: the login page is rendered, the run ends.
RenderLogin(p) ==
    /\ pc[p] = "request"
    /\ EndRun(p)
    /\ ev' = [NoEvent EXCEPT !.type = "login", !.proc = p]
    /\ UNCHANGED <<config, changes, db, call, pending, genlog, removed, u_vars, h_vars>>

\* The process is killed while a run is under way; what it wrote stays.
Abort(p) ==
    /\ pc[p] # "idle"
    /\ EndRun(p)
    /\ call' = [call EXCEPT ![p] = NoCall]
    /\ pending' = [pending EXCEPT ![p] = <<>>]
    /\ ev' = [NoEvent EXCEPT !.type = "abort", !.proc = p]
    /\ UNCHANGED <<config, changes, db, genlog, removed, u_vars, h_vars>>

\* The configuration file is edited.  A run reads the file only when it
\* starts, so an edit during a run is the same edit made before the next.
ConfigChange ==
    /\ changes < MaxConfigChanges
    /\ \A p \in Procs : pc[p] = "idle"
    /\ changes' = changes + 1
    /\ config' \in Configs \ {config}
    /\ UNCHANGED <<db, pc, cfg, idx, call, pending, outcomes, genlog, removed, ev, u_vars, h_vars>>

MatcherOff ==
    /\ m_pc = "off"
    /\ m_participants = <<>>
    /\ m_exclusions = <<>>
    /\ m_outcome = [raised |-> FALSE, value |-> <<>>, attempts |-> 0]
    /\ m_receivers = <<>>
    /\ m_valid = FALSE
    /\ m_attempts = 0
    /\ m_error = 0

AuthOff ==
    /\ a_pc = "off"
    /\ a_username = None
    /\ a_password = None
    /\ a_family = [id |-> NoFamilyId, participants |-> <<>>]
    /\ a_other = [id |-> NoFamilyId, participants |-> <<>>]
    /\ a_result = [found |-> FALSE, participant |-> NoParticipant]

\* st.session_state as the script's first lines leave a new session.
NewSession == [authenticated |-> FALSE, username |-> None, selected_family_id |-> NoFamilyId]

\* What a script run showed: the kind of page; on the page of a logged-in
\* session the family and its participants, whether the family's
\* initialization had raised in this run (initFailed), whether the user is
\* one of its participants (member), whether the page's call of
\* get_or_create_assignments stored a new assignment (generated), and the
\* receiver shown.
NoShown ==
    [kind |-> "none", family |-> NoFamilyId, participants |-> <<>>, initFailed |-> FALSE,
     member |-> FALSE, generated |-> FALSE, receiver |-> None]

NoLogin == [has |-> FALSE, username |-> None, family_id |-> NoFamilyId]

\* The last save_wish_list call: its arguments.
NoSave == [type |-> "none", username |-> None, items |-> <<>>]

SystemFresh ==
    /\ session = [p \in Procs |-> NewSession]
    /\ assignments = [p \in Procs |-> <<>>]
    /\ shown = [p \in Procs |-> NoShown]
    /\ login = [p \in Procs |-> NoLogin]
    /\ saves = 0
    /\ wev = NoSave
    /\ changes = 0
    /\ db = <<>>
    /\ pc = [p \in Procs |-> "idle"]
    /\ cfg = [p \in Procs |-> <<>>]
    /\ idx = [p \in Procs |-> 1]
    /\ call = [p \in Procs |-> NoCall]
    /\ pending = [p \in Procs |-> <<>>]
    /\ outcomes = [p \in Procs |-> <<>>]
    /\ genlog = <<>>
    /\ removed = {}
    /\ ev = NoEvent

SystemOff == config = <<>> /\ SystemFresh

\* A fresh deployment: some configuration, an empty database, no run.
Init == MatcherOff /\ AuthOff /\ config \in Configs /\ SystemFresh

\* One script run at a time, each a synchronous unit of work.
Next ==
    \/ Reconcile(1)
    \/ LoopCall(1)
    \/ Insert(1)
    \/ LoopDone(1)
    \/ RequestCall(1)
    \/ RenderLogin(1)
    \/ Abort(1)
    \/ ConfigChange

Spec == Init /\ [][Next]_vars

\* Script runs of several sessions, their steps interleaved, over a
\* configuration that stays as it is.
NextConc ==
    \E p \in Procs :
        \/ Reconcile(p)
        \/ LoopCall(p)
        \/ Insert(p)
        \/ LoopDone(p)
        \/ RequestCall(p)
        \/ RenderLogin(p)

SpecConc == Init /\ [][NextConc]_vars

(***************************************************************************)
(* The application: sessions that log in, look at their page, edit their   *)
(* wish list and log out, one script run at a time                         *)
(***************************************************************************)
MaxSaves == 3    \* calls of save_wish_list over a behaviour

MaxWishes == 2   \* longest wish list

WishTexts == {"w1", "w2"}

LoginUsernames == {"A", "X"}

LoginPasswords == {PasswordOf(u) : u \in LoginUsernames}

\* The configurations the file goes through: two families of two; the first
\* family alone; and the second family with an exclusion that leaves no
\* valid assignment.
AppConfigs ==
    LET g1 == [id |-> <<"g1">>,
               participants |-> <<Participant("A", {}), Participant("B", {})>>]
        g2 == [id |-> <<"g2">>,
               participants |-> <<Participant("X", {}), Participant("Y", {})>>]
        g2x == [id |-> <<"g2">>,
                participants |-> <<Participant("X", {"Y"}), Participant("Y", {})>>]
    IN  { <<g1, g2>>, <<g1>>, <<g1, g2x>> }

\* get_or_create_assignments(family) as a whole, on database file d: every
\* way it can end, with the file it leaves.  gen tags the rows it inserts.
GocWhole(d, family, gen) ==
    LET name == TableName(family.id)
        existing == TableAll(d, name)
        Rows(value) == [i \in 1..Len(value) |->
                           [giver |-> value[i].giver, receiver |-> value[i].receiver,
                            gen |-> gen]]
    IN  IF ExistingFound(existing, family)
        THEN {[raised |-> FALSE, value |-> RowsToDict(existing), db |-> d, created |-> FALSE]}
        ELSE {IF o.raised
              THEN [raised |-> TRUE, value |-> <<>>, db |-> d, created |-> FALSE]
              ELSE IF o.value = <<>>
              THEN [raised |-> FALSE, value |-> <<>>, db |-> d, created |-> FALSE]
              ELSE [raised |-> FALSE, value |-> o.value, created |-> TRUE,
                    db |-> [t \in DOMAIN d \cup {name} |->
                               IF t = name THEN existing \o Rows(o.value) ELSE d[t]]] :
                 o \in MatchResults(family.participants)}

\* SessionAfterLogin as it would be if the session were marked authenticated
\* whatever authenticate returned.
SessionAfterLogin_NoCheck(s, user, username, family_id) ==
    [authenticated |-> TRUE, username |-> username, selected_family_id |-> family_id]

\* `if user:` after authenticate: the three assignments to st.session_state.
SessionAfterLogin(s, user, username, family_id) ==
    IF user.found
    THEN [authenticated |-> TRUE, username |-> username, selected_family_id |-> family_id]
    ELSE s

\* The logout button: the three assignments to st.session_state.
SessionAfterLogout(s) ==
    [authenticated |-> FALSE, username |-> None, selected_family_id |-> NoFamilyId]

\* RequestOutcome as it would be without the try/except around the call.
RequestOutcome_Uncaught(raised) == IF raised THEN "crash" ELSE "page"

\* The try/except around the page's get_or_create_assignments call: an
\* exception is shown with st.error and st.stop() ends the run.
RequestOutcome(raised) == IF raised THEN "error" ELSE "page"

\* The start of a script run, when no other run is under way.
StartRun(p) ==
    /\ \A q \in Procs : pc[q] = "idle"
    /\ Reconcile(p)

\* The page of a session that is not logged in: the family selector and the
\* login form, submitted or not.
LoginPage(p) ==
    /\ pc[p] = "request"
    /\ ~session[p].authenticated
    /\ IF cfg[p] = <<>>
       THEN \* family_options[None]: KeyError
            /\ shown' = [shown EXCEPT ![p] = [NoShown EXCEPT !.kind = "crash"]]
            /\ UNCHANGED <<session, login>>
       ELSE \E i \in 1..Len(cfg[p]), submit \in BOOLEAN,
               username \in LoginUsernames, password \in LoginPasswords :
               LET selected_family_id == cfg[p][i].id
                   selected_family == get_family_by_id(cfg[p], selected_family_id).family
                   user == authenticate(username, password, selected_family)
               IN  IF ~submit
                   THEN /\ shown' = [shown EXCEPT ![p] = [NoShown EXCEPT !.kind = "login"]]
                        /\ UNCHANGED <<session, login>>
                   ELSE /\ session' = [session EXCEPT ![p] =
                                          SessionAfterLogin(@, user, username,
                                                            selected_family_id)]
                        /\ login' = [login EXCEPT ![p] =
                                        IF user.found
                                        THEN [has |-> TRUE, username |-> username,
                                              family_id |-> selected_family.id]
                                        ELSE @]
                        /\ shown' = [shown EXCEPT ![p] =
                                        [NoShown EXCEPT
                                            !.kind = IF user.found THEN "loggedin"
                                                     ELSE "invalid"]]
    /\ EndRun(p)
    /\ ev' = [NoEvent EXCEPT !.type = "login", !.proc = p]
    /\ UNCHANGED <<config, changes, db, call, pending, genlog, removed, assignments, saves,
                   wev, h_vars>>

\* The page of a logged-in session whose family is not in the configuration.
FamilyNotFound(p) ==
    /\ pc[p] = "request"
    /\ session[p].authenticated
    /\ ~get_family_by_id(cfg[p], session[p].selected_family_id).found
    /\ session' = [session EXCEPT ![p].authenticated = FALSE]
    /\ shown' = [shown EXCEPT ![p] = [NoShown EXCEPT !.kind = "notfound"]]
    /\ EndRun(p)
    /\ ev' = [NoEvent EXCEPT !.type = "notfound", !.proc = p]
    /\ UNCHANGED <<config, changes, db, call, pending, genlog, removed, assignments, login,
                   saves, wev, h_vars>>

\* The page of a logged-in session, first part: the look-up of its family
\* and the call of get_or_create_assignments in its try/except.
PageCall(p) ==
    /\ pc[p] = "request"
    /\ session[p].authenticated
    /\ get_family_by_id(cfg[p], session[p].selected_family_id).found
    /\ LET current_family == get_family_by_id(cfg[p], session[p].selected_family_id).family
           user == get_user_info(session[p].username, current_family)
           initFailed == \E i \in 1..Len(outcomes[p]) :
                            /\ outcomes[p][i].id = current_family.id
                            /\ outcomes[p][i].kind = "raised"
       IN  \E r \in GocWhole(db, current_family, Len(genlog) + 1) :
             LET base == [NoShown EXCEPT
                             !.family = current_family.id,
                             !.participants = current_family.participants,
                             !.initFailed = initFailed,
                             !.member = user.found,
                             !.generated = r.created]
             IN  /\ r.created => Len(genlog) < MaxGen
                 /\ genlog' = IF r.created
                              THEN Append(genlog, [id |-> current_family.id,
                                                   participants |-> current_family.participants,
                                                   value |-> r.value])
                              ELSE genlog
                 /\ db' = r.db
                 /\ shown' = [shown EXCEPT ![p] =
                                 [base EXCEPT !.kind = RequestOutcome(r.raised)]]
                 /\ IF RequestOutcome(r.raised) = "page"
                    THEN /\ assignments' = [assignments EXCEPT ![p] = r.value]
                         /\ pc' = [pc EXCEPT ![p] = "render"]
                         /\ UNCHANGED <<cfg, idx, outcomes>>
                    ELSE /\ EndRun(p)
                         /\ UNCHANGED assignments
    /\ ev' = [NoEvent EXCEPT !.type = "page", !.proc = p]
    /\ UNCHANGED <<config, changes, call, pending, removed, session, login, saves, wev,
                   h_vars>>

\* The page of a logged-in session, second part: the sidebar with the
\* logout button, the receiver, and the session's own wish list with its
\* remove buttons and its add form.  The run is the answer to one
\* interaction: none, logout, a remove button or the add form.
Render(p) ==
    /\ pc[p] = "render"
    /\ LET current_family == get_family_by_id(cfg[p], session[p].selected_family_id).family
           username == session[p].username
           user == get_user_info(username, current_family)
           receiver_username == AssignmentsGet(assignments[p], username)
           receiver == get_user_info(receiver_username, current_family)
           current_wishes == get_wish_list(db, username)
           page == [shown[p] EXCEPT
                       !.kind = IF receiver.found THEN "receiver" ELSE "noreceiver",
                       !.receiver = receiver_username]
           Saved(items) ==
               /\ saves < MaxSaves
               /\ saves' = saves + 1
               /\ db' = save_wish_list(db, username, items)
               /\ wev' = [type |-> "save", username |-> username, items |-> items]
               /\ shown' = [shown EXCEPT ![p] = page]
               /\ UNCHANGED session
       IN  IF ~user.found
           THEN \* user['name'] in the sidebar: TypeError
                /\ shown' = [shown EXCEPT ![p].kind = "crash"]
                /\ UNCHANGED <<db, session, saves, wev>>
           ELSE \/ \* no button: the page is shown
                   /\ shown' = [shown EXCEPT ![p] = page]
                   /\ UNCHANGED <<db, session, saves, wev>>
                \/ \* the logout button
                   /\ session' = [session EXCEPT ![p] = SessionAfterLogout(@)]
                   /\ shown' = [shown EXCEPT ![p].kind = "logout"]
                   /\ UNCHANGED <<db, saves, wev>>
                \/ \* a remove button: current_wishes.pop(i)
                   \E i \in 1..Len(current_wishes) :
                       Saved(SubSeq(current_wishes, 1, i - 1)
                             \o SubSeq(current_wishes, i + 1, Len(current_wishes)))
                \/ \* the add form: current_wishes.append(new_wish)
                   \E new_wish \in WishTexts :
                       /\ Len(current_wishes) < MaxWishes
                       /\ Saved(Append(current_wishes, new_wish))
    /\ EndRun(p)
    /\ assignments' = [assignments EXCEPT ![p] = <<>>]
    /\ ev' = [NoEvent EXCEPT !.type = "render", !.proc = p]
    /\ UNCHANGED <<config, changes, call, pending, genlog, removed, login, h_vars>>

\* The configuration file is edited while no run is under way.
AppConfigChange ==
    /\ changes < MaxConfigChanges
    /\ \A p \in Procs : pc[p] = "idle"
    /\ changes' = changes + 1
    /\ config' \in AppConfigs \ {config}
    /\ UNCHANGED <<db, pc, cfg, idx, call, pending, outcomes, genlog, removed, ev, u_vars,
                   h_vars>>

AppInit == MatcherOff /\ AuthOff /\ config \in AppConfigs /\ SystemFresh

\* One browser session, which may log in as one user after another; each of
\* its interactions is one script run.
AppNext ==
    \/ StartRun(1)
    \/ LoopCall(1)
    \/ Insert(1)
    \/ LoopDone(1)
    \/ LoginPage(1)
    \/ FamilyNotFound(1)
    \/ PageCall(1)
    \/ Render(1)
    \/ AppConfigChange

SpecApp == AppInit /\ [][AppNext]_vars

(***************************************************************************)
(* The matcher harness: initialize_assignments applied to bounded inputs   *)
(***************************************************************************)
\* Exclusion maps as get_or_create_assignments builds them: a key only for a
\* username with a non-empty exclude list.
ExclusionMaps ==
    UNION {[D -> {{u} : u \in Usernames}] : D \in SUBSET Usernames}

MatchInit ==
    /\ m_pc = "ready"
    /\ m_participants \in SeqsUpTo(Usernames, MaxLen)
    /\ m_exclusions \in ExclusionMaps
    /\ m_outcome = [raised |-> FALSE, value |-> <<>>, attempts |-> 0]
    /\ m_receivers = <<>>
    /\ m_valid = FALSE
    /\ m_attempts = 0
    /\ m_error = 0
    /\ AuthOff
    /\ SystemOff

Match ==
    /\ m_pc = "ready"
    /\ \E o \in initialize_assignments(m_participants, m_exclusions) :
           \E k \in o.attempts :
               m_outcome' = [raised |-> o.raised, value |-> o.value, attempts |-> k]
    /\ m_pc' = "done"
    /\ UNCHANGED <<m_participants, m_exclusions, m_receivers, m_valid, m_attempts,
                   m_error, a_vars, s_vars>>

MatchNext == Match

SpecMatch == MatchInit /\ [][MatchNext]_vars

(***************************************************************************)
(* The matcher loop, pass by pass                                          *)
(***************************************************************************)
\* WhileGuard as it would be if the bound were tested with <=.
WhileGuard_OneMore(valid, attempts) == ~valid /\ attempts <= max_attempts

\* `while not valid and attempts < max_attempts`
WhileGuard(valid, attempts) == ~valid /\ attempts < max_attempts

\* The arguments the loop is run on: lists of none, one, two and three
\* participants and one with a username twice, with and without an exclusion
\* of the first participant.
LoopParticipants ==
    { <<>>, <<"A">>, <<"A", "B">>, <<"A", "B", "C">>, <<"A", "A">> }

LoopInit ==
    /\ m_pc = "while"
    /\ m_participants \in LoopParticipants
    /\ m_exclusions \in {e \in ExclusionMaps : DOMAIN e \subseteq {"A"}}
    /\ m_outcome = [raised |-> FALSE, value |-> <<>>, attempts |-> 0]
    /\ m_receivers = m_participants
    /\ m_valid = FALSE
    /\ m_attempts = 0
    /\ m_error = 0
    /\ AuthOff
    /\ SystemOff

\* One pass of the while loop: shuffle, validate, count.
MatchPass ==
    /\ m_pc = "while"
    /\ WhileGuard(m_valid, m_attempts)
    /\ m_receivers' \in Shuffles(m_receivers)
    /\ m_valid' = PairingValid(m_participants, m_receivers', m_exclusions)
    /\ m_attempts' = m_attempts + 1
    /\ UNCHANGED <<m_pc, m_participants, m_exclusions, m_outcome, m_error, a_vars, s_vars>>

\* After the loop: `if not valid: raise ValueError(f"... after {max_attempts}
\* attempts ...")`.
MatchRaise ==
    /\ m_pc = "while"
    /\ ~WhileGuard(m_valid, m_attempts)
    /\ ~m_valid
    /\ m_outcome' = [raised |-> TRUE, value |-> <<>>, attempts |-> m_attempts]
    /\ m_error' = max_attempts
    /\ m_pc' = "done"
    /\ UNCHANGED <<m_participants, m_exclusions, m_receivers, m_valid, m_attempts, a_vars, s_vars>>

\* After the loop: `return dict(zip(givers, receivers))`.
MatchReturn ==
    /\ m_pc = "while"
    /\ ~WhileGuard(m_valid, m_attempts)
    /\ m_valid
    /\ m_outcome' = [raised |-> FALSE, value |-> DictZip(m_participants, m_receivers),
                     attempts |-> m_attempts]
    /\ m_pc' = "done"
    /\ UNCHANGED <<m_participants, m_exclusions, m_receivers, m_valid, m_attempts,
                   m_error, a_vars, s_vars>>

(***************************************************************************)
(* The authenticate harness: authenticate applied to bounded inputs        *)
(***************************************************************************)
MaxRoster == 2   \* longest participant list of the family handed to authenticate

AuthUsernames == {"A", "a", "B"}

AuthPasswords == {"pwA", "pwa", "pwB"}

AuthParticipants ==
    {[username |-> u, password |-> w, exclude |-> {}] : u \in AuthUsernames, w \in AuthPasswords}

AuthInit ==
    /\ a_pc = "ready"
    /\ a_username \in AuthUsernames
    /\ a_password \in AuthPasswords
    /\ a_family \in [id : {<<"g1">>}, participants : SeqsUpTo(AuthParticipants, MaxRoster)]
    /\ a_other \in [id : {<<"g2">>}, participants : SeqsUpTo(AuthParticipants, 1)]
    /\ a_result = [found |-> FALSE, participant |-> NoParticipant]
    /\ MatcherOff
    /\ SystemOff

Auth ==
    /\ a_pc = "ready"
    /\ a_result' = authenticate(a_username, a_password, a_family)
    /\ a_pc' = "done"
    /\ UNCHANGED <<a_username, a_password, a_family, a_other, m_vars, s_vars>>

AuthNext == Auth

SpecAuth == AuthInit /\ [][AuthNext]_vars

LoopNext == MatchPass \/ MatchRaise \/ MatchReturn

\* A call that has begun goes on until it returns or raises.
SpecLoop == LoopInit /\ [][LoopNext]_vars /\ WF_vars(LoopNext)

(***************************************************************************)
(* What the claims speak of                                                *)
(***************************************************************************)
Distinct(s) == \A i, j \in 1..Len(s) : i # j => s[i] # s[j]

\* Some bijection of the participants onto themselves has no fixed point and
\* no excluded pair.
Satisfiable(participants, exclusions) ==
    \E f \in [Range(participants) -> Range(participants)] :
        /\ \A u, v \in Range(participants) : u # v => f[u] # f[v]
        /\ \A u \in Range(participants) :
              f[u] # u /\ f[u] \notin ExclusionsGet(exclusions, u)

\* d maps every participant to a participant, one to one and onto, no one to
\* themselves and no one to a member of their exclusion list.
IsValidAssignment(d, participants, exclusions) ==
    /\ Keys(d) = Range(participants)
    /\ Values(d) = Range(participants)
    /\ \A i, j \in 1..Len(d) :
          i # j => d[i].giver # d[j].giver /\ d[i].receiver # d[j].receiver
    /\ \A i \in 1..Len(d) :
          /\ d[i].giver # d[i].receiver
          /\ d[i].receiver \notin ExclusionsGet(exclusions, d[i].giver)

\* The (giver, receiver) pairs stored for a family.
StoredPairs(d, id) ==
    {<<TableAll(d, TableName(id))[i].giver, TableAll(d, TableName(id))[i].receiver>> :
        i \in 1..Len(TableAll(d, TableName(id)))}

\* The stored rows of a family, without the generation the model tags them with.
StoredItems(d, id) ==
    [i \in 1..Len(TableAll(d, TableName(id))) |->
        [giver |-> TableAll(d, TableName(id))[i].giver,
         receiver |-> TableAll(d, TableName(id))[i].receiver]]

(***************************************************************************)
(* C1                                                                      *)
(***************************************************************************)
C1_Case ==
    /\ m_pc = "done"
    /\ Len(m_participants) >= 2
    /\ Distinct(m_participants)
    /\ Satisfiable(m_participants, m_exclusions)

\* C1 as claimed: for at least two participants with distinct usernames and a
\* satisfiable exclusion relation, initialize_assignments returns a mapping,
\* and the mapping is a bijection of the participants with no giver mapped to
\* themselves or to a member of their exclusion list.
C1_Original ==
    C1_Case =>
        /\ ~m_outcome.raised
        /\ IsValidAssignment(m_outcome.value, m_participants, m_exclusions)

\* C1 as amended: for such inputs initialize_assignments either returns a
\* mapping that is such a bijection, or raises ValueError after max_attempts
\* shuffles that were all invalid; it returns no other mapping.
C1_ReturnsValidOrRaisesAtBound ==
    C1_Case =>
        \/ m_outcome.raised /\ m_outcome.attempts = max_attempts
        \/ /\ ~m_outcome.raised
           /\ IsValidAssignment(m_outcome.value, m_participants, m_exclusions)

\* Three participants, an exclusion among them, and a mapping returned.
C1_Witness ==
    /\ C1_Case
    /\ ~m_outcome.raised
    /\ Len(m_participants) = 3
    /\ \E u \in Range(m_participants) :
          ExclusionsGet(m_exclusions, u) \cap (Range(m_participants) \ {u}) # {}

(***************************************************************************)
(* C2                                                                      *)
(***************************************************************************)
\* C2: for a participant list of size 0 or 1, initialize_assignments raises
\* and returns no mapping, not even the empty one.
C2_SmallListsRaise ==
    (m_pc = "done" /\ Len(m_participants) <= 1) => m_outcome.raised

(***************************************************************************)
(* C3                                                                      *)
(***************************************************************************)
\* C3: a get_or_create_assignments call that finds rows stored for its family
\* returns, writes nothing, and returns exactly the stored rows, one item per
\* row, whatever the family's participants are by now.
C3_ExistingRowsReturnedUntouched ==
    ev.found =>
        /\ ev.type = "return"
        /\ ~ev.dbChanged
        /\ Len(ev.value) = Len(TableAll(db, TableName(ev.id)))
        /\ Items(ev.value) = StoredPairs(db, ev.id)

\* A call returned stored rows that were generated for other participants
\* than the family has now, after an edit of the configuration.
C3_Witness ==
    /\ ev.type = "return"
    /\ ev.found
    /\ changes >= 1
    /\ \E p \in Procs : \E i \in 1..Len(cfg[p]) :
          /\ cfg[p][i].id = ev.id
          /\ \E g \in GensOf(db, TableName(ev.id)) :
                genlog[g].participants # cfg[p][i].participants

(***************************************************************************)
(* C4                                                                      *)
(***************************************************************************)
\* C4: when a get_or_create_assignments call begins right after another call
\* for the same family has returned a mapping, with no step in between, it
\* returns the same mapping and leaves the database as it is.
C4_SecondCallSameAndPure ==
    ev.prev.has =>
        /\ ev.type = "return"
        /\ Items(ev.value) = Items(ev.prev.value)
        /\ ~ev.dbChanged

\* The second call came right after a call that created three rows.
C4_Witness ==
    /\ ev.type = "return"
    /\ ev.prev.has
    /\ ev.prev.created
    /\ Len(ev.prev.value) = 3

(***************************************************************************)
(* C5                                                                      *)
(***************************************************************************)
\* C5 as claimed: after initialize_all_families has run, every configured
\* family with at least two participants and a satisfiable exclusion relation
\* has a stored assignment, and that is a derangement of the family's
\* participants that respects the family's exclusions.
C5_Original ==
    \A p \in Procs :
        pc[p] = "request" =>
            \A i \in 1..Len(cfg[p]) :
                LET participants == cfg[p][i].participants
                    usernames == UsernamesOf(participants)
                    exclusions == BuildExclusions(participants)
                    stored == StoredItems(db, cfg[p][i].id)
                IN  (Len(participants) >= 2 /\ Satisfiable(usernames, exclusions)) =>
                        /\ stored # <<>>
                        /\ IsValidAssignment(stored, usernames, exclusions)

\* C5 as amended: after initialize_all_families has run, the call made for
\* each configured family either raised ValueError or returned a mapping
\* whose pairs are all stored, a mapping that is empty only for a family
\* without participants; and every stored row of a configured family is a
\* pair of a matcher result for that family that is a derangement respecting
\* the exclusions of the participants the family had when the result was
\* generated, which need not be its participants now.
C5_StoredRowsFromValidGenerations ==
    \A p \in Procs :
        pc[p] = "request" =>
            /\ Len(outcomes[p]) = Len(cfg[p])
            /\ \A i \in 1..Len(cfg[p]) :
                  LET id == cfg[p][i].id
                      rows == TableAll(db, TableName(id))
                      out == outcomes[p][i]
                  IN  /\ \/ out.kind = "raised"
                         \/ /\ Items(out.value) \subseteq StoredPairs(db, id)
                            /\ out.value = <<>> => cfg[p][i].participants = <<>>
                      /\ \A k \in 1..Len(rows) :
                            /\ rows[k].gen \in 1..Len(genlog)
                            /\ genlog[rows[k].gen].id = id
                            /\ <<rows[k].giver, rows[k].receiver>>
                                   \in Items(genlog[rows[k].gen].value)
                            /\ IsValidAssignment(genlog[rows[k].gen].value,
                                   UsernamesOf(genlog[rows[k].gen].participants),
                                   BuildExclusions(genlog[rows[k].gen].participants))

\* After initialize_all_families a family holds the rows generated for the
\* three participants it had before, all of them, while it now has two.
C5_Witness ==
    \E p \in Procs :
        /\ pc[p] = "request"
        /\ \E i \in 1..Len(cfg[p]) :
              /\ Len(cfg[p][i].participants) = 2
              /\ Len(StoredItems(db, cfg[p][i].id)) = 3

(***************************************************************************)
(* C6                                                                      *)
(***************************************************************************)
\* C6: the first half of initialize_all_families leaves the rows of every
\* configured family as they were, and after initialize_all_families no
\* table is left of a family whose id is not in the configuration.
C6_RemovedFamiliesDeleted ==
    /\ ev.type = "reconcile" => ev.kept
    /\ \A p \in Procs :
          pc[p] = "request" =>
              \A t \in DOMAIN db :
                  StartsWithAssignments(t) => OwnerOf(t) \in ConfigFamilyIds(cfg[p])

(***************************************************************************)
(* C7                                                                      *)
(***************************************************************************)
\* C7: after initialize_all_families, no configured family holds a row of a
\* generation that was stored for it when an earlier reconcile ran without
\* the family in the configuration.
C7_NoRowsFromBeforeRemoval ==
    \A p \in Procs :
        pc[p] = "request" =>
            \A i \in 1..Len(cfg[p]) :
                \A g \in GensOf(db, TableName(cfg[p][i].id)) :
                    <<cfg[p][i].id, g>> \notin removed

C9_NoPartialRows ==
    (\A p \in Procs : pc[p] # "insert") =>
        \A t \in DOMAIN db :
            \/ db[t] = <<>>
            \/ Len(db[t]) = Len(genlog[db[t][1].gen].participants)

(***************************************************************************)
(* C10                                                                     *)
(***************************************************************************)
\* C10: whatever the interleaving of the callers, a family's table never
\* holds two rows of one giver nor rows of two matcher results.
C10_AtMostOneGeneration ==
    \A t \in DOMAIN db :
        /\ \A i, j \in 1..Len(db[t]) : i # j => db[t][i].giver # db[t][j].giver
        /\ Cardinality(GensOf(db, t)) <= 1

(***************************************************************************)
(* C11                                                                     *)
(***************************************************************************)
\* C11: initialize_assignments always ends; it never makes more than
\* max_attempts shuffles; after a shuffle that satisfies every constraint its
\* next step is to return the pairing of that shuffle; and it raises only
\* after max_attempts shuffles, none of them valid, with an error that names
\* max_attempts.
C11_EndsWithinBound ==
    /\ <>(m_pc = "done")
    /\ [](m_attempts <= max_attempts)
    /\ [][m_valid => /\ m_pc' = "done"
                     /\ ~m_outcome'.raised
                     /\ m_outcome'.value = DictZip(m_participants, m_receivers)
                     /\ PairingValid(m_participants, m_receivers, m_exclusions)]_vars
    /\ []((m_pc = "done" /\ m_outcome.raised) =>
            /\ m_attempts = max_attempts
            /\ m_error = max_attempts
            /\ ~m_valid)
    /\ []((m_pc = "done" /\ ~m_outcome.raised) => m_error = 0)

\* The last shuffle the bound allows was the first valid one, and its pairing
\* was returned.
C11_Witness ==
    /\ m_pc = "done"
    /\ ~m_outcome.raised
    /\ m_attempts = max_attempts
    /\ Len(m_outcome.value) = 3

(***************************************************************************)
(* C15                                                                     *)
(***************************************************************************)
C15_Case ==
    /\ m_pc = "done"
    /\ Len(m_participants) = 3
    /\ Range(m_participants) = {"A", "B", "C"}
    /\ m_exclusions = [u \in {"A"} |-> {"B"}]

\* C15: for the participants A, B and C, in any order, with A excluded from
\* giving to B, every mapping initialize_assignments returns is A->C, C->B,
\* B->A.
C15_OnlyOneMapping ==
    (C15_Case /\ ~m_outcome.raised) =>
        /\ Items(m_outcome.value) = {<<"A", "C">>, <<"C", "B">>, <<"B", "A">>}
        /\ Len(m_outcome.value) = 3

\* The mapping was returned for the list B, C, A after several shuffles.
C15_Witness ==
    /\ C15_Case
    /\ ~m_outcome.raised
    /\ m_participants = <<"B", "C", "A">>
    /\ m_outcome.attempts > 1

(***************************************************************************)
(* C18                                                                     *)
(***************************************************************************)
\* C18: when a get_or_create_assignments call that found no rows returns a
\* mapping, the family's table holds one row for each item of the mapping,
\* in the mapping's order, and no other row.
C18_StoredRowsAreReturnedMapping ==
    (ev.type = "return" /\ ~ev.found) =>
        /\ StoredItems(db, ev.id) = ev.value
        /\ Items(ev.value) = StoredPairs(db, ev.id)
        /\ Len(TableAll(db, TableName(ev.id))) = Cardinality(Items(ev.value))

\* A call found no rows for a family whose table an earlier reconcile had
\* dropped, and stored and returned a mapping of three pairs.
C18_Witness ==
    /\ ev.type = "return"
    /\ ~ev.found
    /\ ev.dbChanged
    /\ Len(ev.value) = 3
    /\ \E r \in removed : r[1] = ev.id

(***************************************************************************)
(* C17                                                                     *)
(***************************************************************************)
\* C17: authenticate returns a participant only if it is one of the given
\* family's participants and its username and its password are the given
\* ones, character for character; and it returns None exactly when no
\* participant of the given family has both, whoever has them in another
\* family.
C17_ExactMatchInFamily ==
    a_pc = "done" =>
        /\ a_result.found =>
              /\ \E i \in 1..Len(a_family.participants) :
                    a_family.participants[i] = a_result.participant
              /\ a_result.participant.username = a_username
              /\ a_result.participant.password = a_password
        /\ ~a_result.found <=>
              \A i \in 1..Len(a_family.participants) :
                  \/ a_family.participants[i].username # a_username
                  \/ a_family.participants[i].password # a_password

\* None was returned although a participant of the other family has the
\* username and the password, and a participant of the given family has the
\* username, with a password that differs in the case of a letter.
C17_Witness ==
    /\ a_pc = "done"
    /\ ~a_result.found
    /\ a_username = "A"
    /\ a_password = "pwA"
    /\ \E i \in 1..Len(a_other.participants) :
          /\ a_other.participants[i].username = a_username
          /\ a_other.participants[i].password = a_password
    /\ \E i \in 1..Len(a_family.participants) :
          /\ a_family.participants[i].username = a_username
          /\ a_family.participants[i].password = "pwa"

(***************************************************************************)
(* C12                                                                     *)
(***************************************************************************)
\* C12: right after save_wish_list(u, items), get_wish_list(u) returns items,
\* the same texts in the same order, whether the call updated a record of u
\* or inserted one, and also when items is empty.
C12_RoundTrip ==
    [][saves' # saves => get_wish_list(db', wev'.username) = wev'.items]_vars

\* A list of two different wishes has just been saved for a user whose
\* record comes after the record of another user.
C12_Witness ==
    /\ ev.type = "render"
    /\ wev.type = "save"
    /\ Len(wev.items) = 2
    /\ wev.items[1] # wev.items[2]
    /\ Len(TableAll(db, WishesTable)) = 2
    /\ TableAll(db, WishesTable)[1].username # wev.username
    /\ TableAll(db, WishesTable)[2] = [username |-> wev.username, items |-> wev.items]

(***************************************************************************)
(* C13                                                                     *)
(***************************************************************************)
\* When initialize_all_families has returned, a family whose call raised
\* has no stored row.
C13_FailedFamilyHasNoRows ==
    \A p \in Procs :
        pc[p] = "request" =>
            \A i \in 1..Len(outcomes[p]) :
                outcomes[p][i].kind = "raised" =>
                    TableAll(db, TableName(outcomes[p][i].id)) = <<>>

\* Session p has just been shown the page of a family of which its user is
\* a participant and whose initialization raised in the same script run.
C13_Case(p) ==
    /\ ev.type = "render" \/ (ev.type = "page" /\ pc[p] = "idle")
    /\ ev.proc = p
    /\ shown[p].initFailed
    /\ shown[p].member

\* C13 as claimed: a family whose initialization raised has no stored row,
\* and the page of a logged-in participant of that family shows an error
\* message: no crash, no receiver.
C13_Original ==
    /\ C13_FailedFamilyHasNoRows
    /\ \A p \in Procs :
          C13_Case(p) => shown[p].kind = "error" /\ shown[p].receiver = None

\* C13 as amended: a family whose initialization raised has no stored row;
\* the page of a logged-in participant of that family calls
\* get_or_create_assignments again and, when that raises again, as it always
\* does for a family without a valid assignment, shows an error message, no
\* receiver, and the family still has no row; otherwise the call has stored
\* a new assignment and the page goes on with it.  The run does not crash.
C13_ErrorShownUnlessGenerated ==
    /\ C13_FailedFamilyHasNoRows
    /\ \A p \in Procs :
          C13_Case(p) =>
              /\ shown[p].kind \in {"error", "receiver", "logout"}
              /\ shown[p].kind = "error" =>
                    /\ shown[p].receiver = None
                    /\ TableAll(db, TableName(shown[p].family)) = <<>>
              /\ shown[p].kind # "error" =>
                    /\ shown[p].generated
                    /\ TableAll(db, TableName(shown[p].family)) # <<>>
              /\ ~Satisfiable(UsernamesOf(shown[p].participants),
                              BuildExclusions(shown[p].participants)) =>
                    shown[p].kind = "error"

\* The error was shown to X, whose family g2 has no valid assignment.
C13_Witness ==
    /\ C13_Case(1)
    /\ shown[1].kind = "error"
    /\ shown[1].family = <<"g2">>
    /\ session[1].username = "X"
    /\ ~Satisfiable(UsernamesOf(shown[1].participants),
                    BuildExclusions(shown[1].participants))

(***************************************************************************)
(* C14                                                                     *)
(***************************************************************************)
\* C14: no step of initialize_all_families, neither the dropping of the
\* tables of removed families nor a step of its get_or_create_assignments
\* calls, changes a record of the wishes table, and neither does the
\* get_or_create_assignments call of the page.
C14_WishesUntouched ==
    [][(\E p \in Procs : pc[p] \in {"idle", "loop", "insert"} /\ pc'[p] # "idle")
          \/ (\E p \in Procs : pc[p] = "request" /\ ev'.type = "page")
       => TableAll(db', WishesTable) = TableAll(db, WishesTable)]_vars

\* A reconcile has just dropped the table of g2, which is no longer
\* configured, and the wishes of X, a participant of g2, are still stored.
C14_Witness ==
    /\ ev.type = "reconcile"
    /\ ev.dbChanged
    /\ <<"g2">> \notin ConfigFamilyIds(config)
    /\ TableName(<<"g2">>) \notin DOMAIN db
    /\ Len(get_wish_list(db, "X")) = 2

(***************************************************************************)
(* C16                                                                     *)
(***************************************************************************)
C16_Groups ==
    << [id |-> <<"g1">>, participants |-> <<Participant("A", {}), Participant("B", {})>>],
       [id |-> <<"g2">>, participants |-> <<Participant("X", {}), Participant("Y", {})>>] >>

\* The configuration has been g1 = {A, B}, g2 = {X, Y} since the database
\* was empty, and initialize_all_families has returned.
C16_Case ==
    /\ changes = 0
    /\ pc[1] = "request"
    /\ cfg[1] = C16_Groups

C16_RowsOf(id) == TableAll(db, TableName(id))

\* C16 as claimed: with g1 = {A, B} and g2 = {X, Y} configured and no
\* exclusions, after initialize_all_families g1's table holds the two rows
\* A->B, B->A and g2's table the two rows X->Y, Y->X, and nothing else.
C16_Original ==
    C16_Case =>
        /\ Len(C16_RowsOf(<<"g1">>)) = 2
        /\ StoredPairs(db, <<"g1">>) = {<<"A", "B">>, <<"B", "A">>}
        /\ Len(C16_RowsOf(<<"g2">>)) = 2
        /\ StoredPairs(db, <<"g2">>) = {<<"X", "Y">>, <<"Y", "X">>}

\* C16 as amended: with g1 = {A, B} and g2 = {X, Y} configured and no
\* exclusions, after initialize_all_families each group whose call did not
\* raise ValueError (after 1000 invalid shuffles) has its own stored
\* assignment, g1's being A->B, B->A and g2's being X->Y, Y->X, a group whose
\* call raised has no row, and neither group's table holds a row of the
\* other group.
C16_EachGroupItsOwnTwoCycle ==
    C16_Case =>
        /\ Len(outcomes[1]) = 2
        /\ \/ outcomes[1][1].kind = "raised" /\ C16_RowsOf(<<"g1">>) = <<>>
           \/ /\ outcomes[1][1].kind # "raised"
              /\ Len(C16_RowsOf(<<"g1">>)) = 2
              /\ StoredPairs(db, <<"g1">>) = {<<"A", "B">>, <<"B", "A">>}
        /\ \/ outcomes[1][2].kind = "raised" /\ C16_RowsOf(<<"g2">>) = <<>>
           \/ /\ outcomes[1][2].kind # "raised"
              /\ Len(C16_RowsOf(<<"g2">>)) = 2
              /\ StoredPairs(db, <<"g2">>) = {<<"X", "Y">>, <<"Y", "X">>}
        /\ TableName(<<"g1">>) # TableName(<<"g2">>)

\* Both groups had their assignment generated and stored by the same
\* initialize_all_families.
C16_Witness ==
    /\ C16_Case
    /\ outcomes[1][1].kind = "created"
    /\ outcomes[1][2].kind = "created"
    /\ StoredPairs(db, <<"g1">>) = {<<"A", "B">>, <<"B", "A">>}
    /\ StoredPairs(db, <<"g2">>) = {<<"X", "Y">>, <<"Y", "X">>}

(***************************************************************************)
(* C19                                                                     *)
(***************************************************************************)
\* The tables of file d other than the wishes table are in file e what
\* they are in d, and so is every wishes record of a username other than
\* username, in the same order.
C19_OthersKept(d, e, username) ==
    LET Other(doc) == doc.username # username
    IN  /\ \A t \in (DOMAIN d \cup DOMAIN e) \ {WishesTable} :
              t \in DOMAIN d /\ t \in DOMAIN e /\ d[t] = e[t]
        /\ SelectSeq(TableAll(d, WishesTable), Other)
               = SelectSeq(TableAll(e, WishesTable), Other)
        /\ \A u \in {"A", "B", "X", "Y"} \ {username} :
               get_wish_list(d, u) = get_wish_list(e, u)

\* C19: the wishes table never holds two records of one username, and a
\* save_wish_list(u, items) call leaves every record of another username
\* and every row of every assignment table as it was.
C19_OneRecordPerUserOthersKept ==
    /\ [](\A i, j \in 1..Len(TableAll(db, WishesTable)) :
              i # j => TableAll(db, WishesTable)[i].username
                          # TableAll(db, WishesTable)[j].username)
    /\ [][saves' # saves => C19_OthersKept(db, db', wev'.username)]_vars

\* The record of one user was overwritten while another user's record
\* follows it in the table and both families have stored assignments.
C19_Witness ==
    /\ ev.type = "render"
    /\ wev.type = "save"
    /\ Len(TableAll(db, WishesTable)) = 2
    /\ TableAll(db, WishesTable)[1] = [username |-> wev.username, items |-> wev.items]
    /\ Len(wev.items) = 2
    /\ TableAll(db, WishesTable)[2].items # <<>>
    /\ TableAll(db, TableName(<<"g1">>)) # <<>>
    /\ TableAll(db, TableName(<<"g2">>)) # <<>>

(***************************************************************************)
(* C20                                                                     *)
(***************************************************************************)
\* Session p ends a script run with this step.
C20_RunEnds(p) == pc[p] \in {"request", "render"} /\ pc'[p] = "idle"

\* C20: a session starts with authenticated = False; whenever authenticated
\* is True, username and selected_family_id are the username and the family
\* id of the session's last authenticate call that returned a participant;
\* authenticated becomes True only in a step in which authenticate returns a
\* participant for the submitted username and the selected family; and the
\* logout button leaves authenticated = False, username = None and
\* selected_family_id = None.
C20_AuthenticatedOnlyByLogin ==
    /\ \A p \in Procs : ~session[p].authenticated
    /\ [](\A p \in Procs :
              session[p].authenticated =>
                  /\ login[p].has
                  /\ session[p].username = login[p].username
                  /\ session[p].selected_family_id = login[p].family_id)
    /\ [][\A p \in Procs :
              (~session[p].authenticated /\ session'[p].authenticated) =>
                  /\ C20_RunEnds(p)
                  /\ shown'[p].kind = "loggedin"
                  /\ login'[p] = [has |-> TRUE, username |-> session'[p].username,
                                  family_id |-> session'[p].selected_family_id]
                  /\ get_family_by_id(cfg[p], session'[p].selected_family_id).found
                  /\ \E password \in LoginPasswords :
                        authenticate(session'[p].username, password,
                            get_family_by_id(cfg[p],
                                session'[p].selected_family_id).family).found]_vars
    /\ [][\A p \in Procs :
              (C20_RunEnds(p) /\ shown'[p].kind = "logout") =>
                  /\ session[p].authenticated
                  /\ ~session'[p].authenticated
                  /\ session'[p].username = None
                  /\ session'[p].selected_family_id = NoFamilyId]_vars

\* The session is logged in as X to g2 after it had been logged in as A to
\* g1, and its page has last shown X's receiver.
C20_Witness ==
    /\ session[1].authenticated
    /\ session[1].username = "X"
    /\ session[1].selected_family_id = <<"g2">>
    /\ shown[1].kind = "receiver"
    /\ shown[1].receiver = "Y"
    /\ get_wish_list(db, "A") # <<>>

====
